---- MODULE Spec2Model ----
(***************************************************************************)
(* A model of auto_py_to_exe/packaging.py: the collision checker, the      *)
(* artifact mover, the log relay and the packaging orchestrator.           *)
(*                                                                         *)
(* Text is modelled as a sequence of atoms (a one-character string, or a   *)
(* whole word such as "--distpath" standing for its characters).  A token  *)
(* of an argument vector is such a sequence.  A directory is a record      *)
(* [exists, entries], entries mapping every name to an entry or NoEntry.   *)
(***************************************************************************)
EXTENDS Integers, Sequences, FiniteSets, TLC

VARIABLES
    \* process-wide state and the file system
    sys_argv,                   \* sys.argv
    recursion_limit,            \* sys.getrecursionlimit()
    dist_dir,                   \* <workspace>/application (dist_path)
    output_directory,                 \* abspath(options['outputDirectory'])
    \* package(): one slot per thread that may call it
    pc,                         \* position of the thread in package()
    pyinstaller_command,        \* argument pyinstaller_command
    increase_recursion_limit,   \* options['increaseRecursionLimit']
    fail,                       \* local variable fail
    exc,                        \* the exception being handled ("" if none)
    returned,                   \* "none", "True" or "False"
    output,                     \* strings delivered to output_function, in order
    seen,                       \* what run_pyinstaller observed when invoked
    overlapped,                 \* history: another call was in flight during this one
    \* __move_package(): the loop of lines 74-83
    todo,                       \* entries of os.listdir(src) not yet processed
    moved,                      \* history: entries processed so far, in order
    failing,                    \* history: the entry whose processing raised
    src0,                       \* history: the source when the mover was called
    dst0,                       \* history: the destination when package() was called
                                \* and again when the mover was called
    \* ForwardToFunctionStream
    stream_written,             \* history: the strings passed to write()
    stream_calls,               \* the calls received by output_function
    stream_ret,                 \* the values returned by write()
    \* will_packaging_overwrite_existing
    file_path, one_file, output_folder, platform, overwrite

globalVars == <<sys_argv, recursion_limit, dist_dir, output_directory>>
pkgVars    == <<pc, pyinstaller_command, increase_recursion_limit, fail, exc,
                returned, output, seen, overlapped>>
moveVars   == <<todo, moved, failing, src0, dst0>>
relayVars  == <<stream_written, stream_calls, stream_ret>>
checkVars  == <<file_path, one_file, output_folder, platform, overwrite>>
vars       == <<globalVars, pkgVars, moveVars, relayVars, checkVars>>

(***************************************************************************)
(* Bounds of the model.                                                    *)
(***************************************************************************)
MaxCmdLen   == 3    \* atoms in a command string (argument vector)
PkgCmdLen   == 1    \* atoms in a command string (error handling)
PkgNames    == 1    \* entry names in the orchestrator's file system
ConcCmdLen  == 1    \* atoms in a command string (interleaved orchestrator)
MoveNames   == 3    \* entry names in the mover's file system
MaxPathLen  == 3    \* atoms in a source file path
MaxListing  == 1    \* entries in the destination listing of the checker
MaxStrLen   == 2    \* atoms in a string written to the stream
MaxWrites   == 3    \* write() calls on the stream

\* all sequences over S of length at most n
SeqsUpTo(S, n) == UNION { [1..k -> S] : k \in 0..n }

(***************************************************************************)
(* Text: command strings and shlex.split (line 142).                       *)
(***************************************************************************)
\* the atoms a command string is made of: two word atoms (one of them the
\* text of a forced flag), the blank and the single quote
CmdAtoms == {"x", "--distpath", " ", "'"}

Commands(n) == SeqsUpTo(CmdAtoms, n)

\* the scanner of shlex (posix mode, whitespace_split): one character
ShlexStep(st, ch) ==
    CASE st.state = "ws" ->
            IF ch = " " THEN st
            ELSE IF ch = "'" THEN [st EXCEPT !.state = "quote", !.quoted = TRUE]
            ELSE [st EXCEPT !.state = "word", !.token = <<ch>>]
      [] st.state = "quote" ->
            IF ch = "'" THEN [st EXCEPT !.state = "word"]
            ELSE [st EXCEPT !.token = Append(@, ch)]
      [] OTHER ->
            IF ch = " "
            THEN [state |-> "ws", token |-> <<>>, quoted |-> FALSE,
                  tokens |-> IF st.token # <<>> \/ st.quoted
                             THEN Append(st.tokens, st.token) ELSE st.tokens]
            ELSE IF ch = "'" THEN [st EXCEPT !.state = "quote", !.quoted = TRUE]
            ELSE [st EXCEPT !.token = Append(@, ch)]

RECURSIVE ShlexScan(_, _, _)
ShlexScan(s, i, st) ==
    IF i > Len(s) THEN st ELSE ShlexScan(s, i + 1, ShlexStep(st, s[i]))

\* shlex.split(s): [ok |-> TRUE, tokens] or, for an unclosed quotation,
\* [ok |-> FALSE] (shlex raises ValueError("No closing quotation"))
ShlexSplit(s) ==
    LET st == ShlexScan(s, 1, [state |-> "ws", token |-> <<>>,
                               quoted |-> FALSE, tokens |-> <<>>])
    IN  IF st.state = "quote" THEN [ok |-> FALSE, tokens |-> <<>>]
        ELSE [ok |-> TRUE,
              tokens |-> IF st.state = "word" /\ (st.token # <<>> \/ st.quoted)
                         THEN Append(st.tokens, st.token) ELSE st.tokens]

\* lines 120-122: the forced overrides (W stands for config.temporary_directory)
dist_path  == <<"W/application">>
build_path == <<"W/build">>
extra_args_workpath_first ==
    <<(<<"--workpath">>), build_path, (<<"--distpath">>), dist_path,
      (<<"--specpath">>), (<<"W">>)>>

extra_args ==
    <<(<<"--distpath">>), dist_path, (<<"--workpath">>), build_path,
      (<<"--specpath">>), (<<"W">>)>>

(***************************************************************************)
(* The file system: top-level entries of two directories.                  *)
(***************************************************************************)
NameList == <<"x.txt", "sub", "lib", "app">>
Names(n) == { NameList[i] : i \in 1..n }
AllNames == { NameList[i] : i \in 1..Len(NameList) }

NoEntry == [kind |-> "none", data |-> "none"]
\* a file or a directory tree; data tells whose content it holds
Entries(data) == [kind : {"file", "dir"}, data : {data}]
\* what is left of an entry that was deleted or copied only in part
Damaged(e) == [e EXCEPT !.data = "partial"]

NoDir    == [exists |-> FALSE, entries |-> [n \in AllNames |-> NoEntry]]
EmptyDir == [exists |-> TRUE,  entries |-> [n \in AllNames |-> NoEntry]]
\* the directories that exist and hold entries (of the given content) under
\* some of the names
Dirs(names, data) ==
    { [exists |-> TRUE,
       entries |-> [n \in AllNames |-> IF n \in names THEN f[n] ELSE NoEntry]] :
      f \in [names -> Entries(data) \cup {NoEntry}] }

\* os.path.exists(join(d, n)), os.path.isfile(join(d, n)), os.listdir(d)
Exists(d, n) == d.exists /\ d.entries[n] # NoEntry
IsFile(d, n) == Exists(d, n) /\ d.entries[n].kind = "file"
ListDir(d)   == { n \in AllNames : Exists(d, n) }
With(d, n, e) == [d EXCEPT !.entries[n] = e]
Without(d, n) == [d EXCEPT !.entries[n] = NoEntry]

\* the orders in which os.listdir may return the names S
Orderings(S) ==
    { q \in [1..Cardinality(S) -> S] : \A i, j \in DOMAIN q : i # j => q[i] # q[j] }

(***************************************************************************)
(* __move_package(src, dst), lines 67-83.  Every file-system call may fail *)
(* (raise OSError); an outcome is the directories it leaves and whether it *)
(* raised.                                                                 *)
(***************************************************************************)
\* lines 70-71 and the os.listdir(src) of line 74
MoveStartOutcomes(src, dst) ==
    LET made == IF dst.exists
                THEN { [dst |-> dst, raised |-> FALSE] }
                ELSE { [dst |-> EmptyDir, raised |-> FALSE],     \* os.makedirs
                       [dst |-> dst, raised |-> TRUE] }
    IN  { [dst |-> m.dst, raised |-> m.raised \/ ~src.exists] : m \in made }

\* a deletion that empties the destination instead of removing one entry
DeleteOutcomesAll(dst, n) ==
    IF Exists(dst, n)
    THEN { [dst |-> EmptyDir, raised |-> FALSE], [dst |-> dst, raised |-> TRUE] }
    ELSE { [dst |-> dst, raised |-> FALSE] }

\* lines 77-81: delete what is in the way
DeleteOutcomes(dst, n) ==
    IF Exists(dst, n)
    THEN IF IsFile(dst, n)
         THEN { [dst |-> Without(dst, n), raised |-> FALSE],     \* os.remove
                [dst |-> dst, raised |-> TRUE] }
         ELSE { [dst |-> Without(dst, n), raised |-> FALSE],     \* shutil.rmtree
                [dst |-> dst, raised |-> TRUE],
                [dst |-> With(dst, n, Damaged(dst.entries[n])), raised |-> TRUE] }
    ELSE { [dst |-> dst, raised |-> FALSE] }

\* shutil.move that leaves the source in place (a copy)
ShutilMoveOutcomesCopy(src, dst, n) ==
    IF ~Exists(src, n) \/ Exists(dst, n)
    THEN { [src |-> src, dst |-> dst, raised |-> TRUE] }
    ELSE { [src |-> src, dst |-> With(dst, n, src.entries[n]), raised |-> FALSE],
           [src |-> src, dst |-> dst, raised |-> TRUE] }

\* line 83, shutil.move(join(src, n), dst) with dst a directory: os.rename to
\* join(dst, n), or a copy followed by the removal of the source
ShutilMoveOutcomes(src, dst, n) ==
    IF ~Exists(src, n) \/ Exists(dst, n)
    THEN { [src |-> src, dst |-> dst, raised |-> TRUE] }
    ELSE LET e == src.entries[n]
         IN  { [src |-> Without(src, n), dst |-> With(dst, n, e), raised |-> FALSE],
               [src |-> src, dst |-> dst, raised |-> TRUE],
               [src |-> src, dst |-> With(dst, n, Damaged(e)), raised |-> TRUE],
               [src |-> src, dst |-> With(dst, n, e), raised |-> TRUE] }
             \cup
             IF e.kind = "dir"
             THEN { [src |-> With(src, n, Damaged(e)), dst |-> With(dst, n, e),
                     raised |-> TRUE] }
             ELSE {}

\* lines 75-83: one iteration of the loop, for entry n
MoveEntryOutcomes(src, dst, n) ==
    UNION { IF d.raised
            THEN { [src |-> src, dst |-> d.dst, raised |-> TRUE] }
            ELSE ShutilMoveOutcomes(src, d.dst, n) :
            d \in DeleteOutcomes(dst, n) }

(***************************************************************************)
(* package(pyinstaller_command, options, output_function), lines 103-168.  *)
(* c is the thread making the call.  output_function appends to output[c]  *)
(* and does not raise.                                                     *)
(***************************************************************************)
DEFAULT_RECURSION_LIMIT == 1000     \* config.DEFAULT_RECURSION_LIMIT
INCREASED_RECURSION_LIMIT == 5000   \* line 131

Msg(t)       == [text |-> t, exc |-> ""]
\* traceback.format_exc() while exception e is being handled
Traceback(e) == [text |-> "traceback", exc |-> e]

NotSeen == [called |-> FALSE, argv |-> <<>>, limit |-> 0]

InFlight(c) == pc[c] \notin {"idle", "returned"}

\* lines 130-134: the limit installed
NewRecursionLimitNoRestore(flag, current) ==
    IF flag THEN INCREASED_RECURSION_LIMIT ELSE current

NewRecursionLimit(flag, current) ==
    IF flag THEN INCREASED_RECURSION_LIMIT ELSE DEFAULT_RECURSION_LIMIT

\* line 142: the argument vector installed
NewArgvOverridesFirst(tokens) == extra_args \o tokens

NewArgv(tokens) == tokens \o extra_args

\* lines 103-128: the call, the banner and the echo of the command
PkgCall(c, cmds) ==
    /\ pc[c] = "idle"
    /\ \E cmd \in cmds, flag \in BOOLEAN :
         /\ pyinstaller_command' = [pyinstaller_command EXCEPT ![c] = cmd]
         /\ increase_recursion_limit' = [increase_recursion_limit EXCEPT ![c] = flag]
    /\ output' = [output EXCEPT ![c] = << Msg("Running auto-py-to-exe v"),
                                          Msg("Building directory: "),
                                          Msg("Provided command: ") >>]
    /\ overlapped' = [d \in DOMAIN pc |->
                        IF d = c THEN \E o \in DOMAIN pc \ {c} : InFlight(o)
                        ELSE IF InFlight(d) THEN TRUE ELSE overlapped[d]]
    /\ dst0' = [dst0 EXCEPT ![c] = output_directory]
    /\ pc' = [pc EXCEPT ![c] = "limit"]
    /\ UNCHANGED <<globalVars, fail, exc, returned, seen, todo, moved, failing,
                   src0, relayVars, checkVars>>

\* after lines 165 and 168: the caller has taken the result, nothing of the
\* call is left but the process-wide state and the files
PkgCallEnds(c) ==
    /\ pc[c] = "returned"
    /\ pc' = [pc EXCEPT ![c] = "idle"]
    /\ pyinstaller_command' = [pyinstaller_command EXCEPT ![c] = <<>>]
    /\ increase_recursion_limit' = [increase_recursion_limit EXCEPT ![c] = FALSE]
    /\ fail' = [fail EXCEPT ![c] = FALSE]
    /\ exc' = [exc EXCEPT ![c] = ""]
    /\ returned' = [returned EXCEPT ![c] = "none"]
    /\ output' = [output EXCEPT ![c] = <<>>]
    /\ seen' = [seen EXCEPT ![c] = NotSeen]
    /\ overlapped' = [overlapped EXCEPT ![c] = FALSE]
    /\ todo' = [todo EXCEPT ![c] = <<>>]
    /\ moved' = [moved EXCEPT ![c] = <<>>]
    /\ failing' = [failing EXCEPT ![c] = ""]
    /\ src0' = [src0 EXCEPT ![c] = NoDir]
    /\ dst0' = [dst0 EXCEPT ![c] = NoDir]
    /\ UNCHANGED <<globalVars, relayVars, checkVars>>

\* lines 130-134
PkgSetLimit(c) ==
    /\ pc[c] = "limit"
    /\ recursion_limit' = NewRecursionLimit(increase_recursion_limit[c], recursion_limit)
    /\ output' = [output EXCEPT ![c] =
                    IF increase_recursion_limit[c]
                    THEN Append(@, Msg("Recursion Limit is set to 5000")) ELSE @]
    /\ pc' = [pc EXCEPT ![c] = "try"]
    /\ UNCHANGED <<sys_argv, dist_dir, output_directory, pyinstaller_command,
                   increase_recursion_limit, fail, exc, returned, seen, overlapped,
                   moveVars, relayVars, checkVars>>

\* lines 137-146: inside the try, up to the call of the tool
PkgInstallArgv(c) ==
    /\ pc[c] = "try"
    /\ fail' = [fail EXCEPT ![c] = FALSE]
    /\ LET r == ShlexSplit(pyinstaller_command[c])
       IN  IF r.ok
           THEN /\ sys_argv' = NewArgv(r.tokens)
                /\ output' = [output EXCEPT ![c] = @ \o <<Msg("Executing: "), Msg("\n")>>]
                /\ pc' = [pc EXCEPT ![c] = "run"]
                /\ UNCHANGED exc
           ELSE /\ exc' = [exc EXCEPT ![c] = "shlex.split"]
                /\ pc' = [pc EXCEPT ![c] = "except"]
                /\ UNCHANGED <<sys_argv, output>>
    /\ UNCHANGED <<recursion_limit, dist_dir, output_directory, pyinstaller_command,
                   increase_recursion_limit, returned, seen, overlapped,
                   moveVars, relayVars, checkVars>>

\* line 148: run_pyinstaller() reads the process-wide state, writes the
\* distribution directory and returns or raises
PkgRunTool(c, contents) ==
    /\ pc[c] = "run"
    /\ seen' = [seen EXCEPT ![c] = [called |-> TRUE, argv |-> sys_argv,
                                    limit |-> recursion_limit]]
    /\ \E d \in contents : dist_dir' = d
    /\ \E raised \in BOOLEAN :
         IF raised
         THEN /\ exc' = [exc EXCEPT ![c] = "run_pyinstaller"]
              /\ pc' = [pc EXCEPT ![c] = "except"]
         ELSE /\ pc' = [pc EXCEPT ![c] = "after"]
              /\ UNCHANGED exc
    /\ UNCHANGED <<sys_argv, recursion_limit, output_directory, pyinstaller_command,
                   increase_recursion_limit, fail, returned, output, overlapped,
                   moveVars, relayVars, checkVars>>

\* lines 149-152
PkgExcept(c) ==
    /\ pc[c] = "except"
    /\ fail' = [fail EXCEPT ![c] = TRUE]
    /\ output' = [output EXCEPT ![c] =
                    @ \o <<Msg("An error occurred, traceback follows:"),
                           Traceback(exc[c])>>]
    /\ pc' = [pc EXCEPT ![c] = "after"]
    /\ UNCHANGED <<globalVars, pyinstaller_command, increase_recursion_limit, exc,
                   returned, seen, overlapped, moveVars, relayVars, checkVars>>

\* whether the project is moved, line 156
MovesProjectAlways(failed) == TRUE

MovesProject(failed) == ~failed

\* lines 155-157 and 163-165
PkgAfter(c) ==
    /\ pc[c] = "after"
    /\ IF MovesProject(fail[c])
       THEN /\ output' = [output EXCEPT ![c] =
                            @ \o <<Msg("\n"), Msg("Moving project to: ")>>]
            /\ pc' = [pc EXCEPT ![c] = "move"]
            /\ UNCHANGED returned
       ELSE /\ output' = [output EXCEPT ![c] =
                            @ \o <<Msg("\n"),
                                   Msg("Project output will not be moved to output folder")>>]
            /\ returned' = [returned EXCEPT ![c] = "False"]
            /\ pc' = [pc EXCEPT ![c] = "returned"]
    /\ UNCHANGED <<globalVars, pyinstaller_command, increase_recursion_limit, fail,
                   exc, seen, overlapped, moveVars, relayVars, checkVars>>

\* line 159, lines 70-74: __move_package(dist_path, output_directory) is
\* called, makes the destination and lists the source
MoveStart(c) ==
    /\ pc[c] = "move"
    /\ src0' = [src0 EXCEPT ![c] = dist_dir]
    /\ dst0' = [dst0 EXCEPT ![c] = output_directory]
    /\ \E o \in MoveStartOutcomes(dist_dir, output_directory) :
         /\ output_directory' = o.dst
         /\ IF o.raised
            THEN /\ exc' = [exc EXCEPT ![c] = "__move_package"]
                 /\ pc' = [pc EXCEPT ![c] = "move_except"]
                 /\ UNCHANGED todo
            ELSE /\ \E q \in Orderings(ListDir(dist_dir)) :
                      todo' = [todo EXCEPT ![c] = q]
                 /\ pc' = [pc EXCEPT ![c] = "loop"]
                 /\ UNCHANGED exc
    /\ UNCHANGED <<sys_argv, recursion_limit, dist_dir, pyinstaller_command,
                   increase_recursion_limit, fail, returned, output, seen, overlapped,
                   moved, failing, relayVars, checkVars>>

\* lines 75-83: one iteration of the loop
MoveEntry(c) ==
    /\ pc[c] = "loop"
    /\ todo[c] # <<>>
    /\ LET n == Head(todo[c])
       IN  \E o \in MoveEntryOutcomes(dist_dir, output_directory, n) :
             /\ dist_dir' = o.src
             /\ output_directory' = o.dst
             /\ todo' = [todo EXCEPT ![c] = Tail(@)]
             /\ IF o.raised
                THEN /\ failing' = [failing EXCEPT ![c] = n]
                     /\ exc' = [exc EXCEPT ![c] = "__move_package"]
                     /\ pc' = [pc EXCEPT ![c] = "move_except"]
                     /\ UNCHANGED moved
                ELSE /\ moved' = [moved EXCEPT ![c] = Append(@, n)]
                     /\ UNCHANGED <<failing, exc, pc>>
    /\ UNCHANGED <<sys_argv, recursion_limit, pyinstaller_command,
                   increase_recursion_limit, fail, returned, output, seen, overlapped,
                   src0, dst0, relayVars, checkVars>>

\* line 74: the loop ends and __move_package returns
MoveReturn(c) ==
    /\ pc[c] = "loop"
    /\ todo[c] = <<>>
    /\ pc' = [pc EXCEPT ![c] = "return"]
    /\ UNCHANGED <<globalVars, pyinstaller_command, increase_recursion_limit, fail,
                   exc, returned, output, seen, overlapped, moveVars,
                   relayVars, checkVars>>

\* lines 161-162: what is reported when the move raised e
MoveFailureReportNoTraceback(e) ==
    << Msg("Failed to move project, traceback follows:") >>

MoveFailureReport(e) ==
    << Msg("Failed to move project, traceback follows:"), Traceback(e) >>

\* lines 160-162
PkgMoveExcept(c) ==
    /\ pc[c] = "move_except"
    /\ output' = [output EXCEPT ![c] = @ \o MoveFailureReport(exc[c])]
    /\ pc' = [pc EXCEPT ![c] = "return"]
    /\ UNCHANGED <<globalVars, pyinstaller_command, increase_recursion_limit, fail,
                   exc, returned, seen, overlapped, moveVars, relayVars,
                   checkVars>>

\* line 168: the value returned once the move was attempted
ReturnValueFalseOnMoveFailure(move_failed) == IF move_failed THEN "False" ELSE "True"

ReturnValue(move_failed) == "True"

\* line 168
PkgReturn(c) ==
    /\ pc[c] = "return"
    /\ returned' = [returned EXCEPT ![c] = ReturnValue(exc[c] = "__move_package")]
    /\ pc' = [pc EXCEPT ![c] = "returned"]
    /\ UNCHANGED <<globalVars, pyinstaller_command, increase_recursion_limit, fail,
                   exc, output, seen, overlapped, moveVars, relayVars,
                   checkVars>>

\* the state of the streams and of the checker while they are not exercised
RelayIdle ==
    /\ stream_written = <<>>
    /\ stream_calls = <<>>
    /\ stream_ret = <<>>

CheckIdle ==
    /\ file_path = <<>>
    /\ one_file = FALSE
    /\ output_folder = [exists |-> FALSE, listing |-> {}]
    /\ platform = "win32"
    /\ overwrite = [done |-> FALSE, value |-> FALSE]

\* the process before any call of package(): threads may call it, the
\* output directory is one of outputs, the tool has written nothing yet
PkgInit(threads, outputs) ==
    /\ sys_argv = << <<"auto-py-to-exe">> >>
    /\ recursion_limit = DEFAULT_RECURSION_LIMIT
    /\ dist_dir = NoDir
    /\ output_directory \in outputs
    /\ pc = [c \in threads |-> "idle"]
    /\ pyinstaller_command = [c \in threads |-> <<>>]
    /\ increase_recursion_limit = [c \in threads |-> FALSE]
    /\ fail = [c \in threads |-> FALSE]
    /\ exc = [c \in threads |-> ""]
    /\ returned = [c \in threads |-> "none"]
    /\ output = [c \in threads |-> <<>>]
    /\ seen = [c \in threads |-> NotSeen]
    /\ overlapped = [c \in threads |-> FALSE]
    /\ todo = [c \in threads |-> <<>>]
    /\ moved = [c \in threads |-> <<>>]
    /\ failing = [c \in threads |-> ""]
    /\ src0 = [c \in threads |-> NoDir]
    /\ dst0 = [c \in threads |-> NoDir]
    /\ RelayIdle
    /\ CheckIdle

\* what the tool may leave in the distribution directory, what the output
\* directory may hold beforehand
ToolOutputs(n) == {NoDir} \cup Dirs(Names(n), "new")
OutputDirs(n)  == {NoDir} \cup Dirs(Names(n), "old")
\* a distribution directory holding one file
OneFileDir == With(EmptyDir, NameList[1], [kind |-> "file", data |-> "new"])

\* package() called again and again by one thread: short commands, every
\* content of the two directories
PkgSeqNext ==
    \E c \in {1} :
        \/ PkgCall(c, Commands(PkgCmdLen))
        \/ PkgCallEnds(c)
        \/ PkgSetLimit(c)
        \/ PkgInstallArgv(c)
        \/ PkgRunTool(c, ToolOutputs(PkgNames))
        \/ PkgExcept(c)
        \/ PkgAfter(c)
        \/ MoveStart(c)
        \/ MoveEntry(c)
        \/ MoveReturn(c)
        \/ PkgMoveExcept(c)
        \/ PkgReturn(c)

SpecPkg == PkgInit({1}, OutputDirs(PkgNames)) /\ [][PkgSeqNext]_vars

\* package() called again and again by one thread: longer commands, a
\* distribution of one file
PkgArgvNext ==
    \E c \in {1} :
        \/ PkgCall(c, Commands(MaxCmdLen))
        \/ PkgCallEnds(c)
        \/ PkgSetLimit(c)
        \/ PkgInstallArgv(c)
        \/ PkgRunTool(c, {OneFileDir})
        \/ PkgExcept(c)
        \/ PkgAfter(c)
        \/ MoveStart(c)
        \/ MoveEntry(c)
        \/ MoveReturn(c)
        \/ PkgMoveExcept(c)
        \/ PkgReturn(c)

SpecArgv == PkgInit({1}, {EmptyDir}) /\ [][PkgArgvNext]_vars

\* package() called once by each of two threads of the same process
PkgConcNext ==
    \E c \in {1, 2} :
        \/ PkgCall(c, Commands(ConcCmdLen))
        \/ PkgSetLimit(c)
        \/ PkgInstallArgv(c)
        \/ PkgRunTool(c, {OneFileDir})
        \/ PkgExcept(c)
        \/ PkgAfter(c)
        \/ MoveStart(c)
        \/ MoveEntry(c)
        \/ MoveReturn(c)
        \/ PkgMoveExcept(c)
        \/ PkgReturn(c)

SpecConc == PkgInit({1, 2}, {EmptyDir}) /\ [][PkgConcNext]_vars

(***************************************************************************)
(* __move_package on its own: the state of package() at line 159, for any  *)
(* content of the two directories.                                         *)
(***************************************************************************)
MoveInit ==
    /\ sys_argv = << <<"auto-py-to-exe">> >>
    /\ recursion_limit = DEFAULT_RECURSION_LIMIT
    /\ dist_dir \in ToolOutputs(MoveNames)
    /\ output_directory \in OutputDirs(MoveNames)
    /\ pc = [c \in {1} |-> "move"]
    /\ pyinstaller_command = [c \in {1} |-> <<>>]
    /\ increase_recursion_limit = [c \in {1} |-> FALSE]
    /\ fail = [c \in {1} |-> FALSE]
    /\ exc = [c \in {1} |-> ""]
    /\ returned = [c \in {1} |-> "none"]
    /\ output = [c \in {1} |-> <<>>]
    /\ seen = [c \in {1} |-> NotSeen]
    /\ overlapped = [c \in {1} |-> FALSE]
    /\ todo = [c \in {1} |-> <<>>]
    /\ moved = [c \in {1} |-> <<>>]
    /\ failing = [c \in {1} |-> ""]
    /\ src0 = [c \in {1} |-> NoDir]
    /\ dst0 = [c \in {1} |-> NoDir]
    /\ RelayIdle
    /\ CheckIdle

MoveNext ==
    \/ MoveStart(1)
    \/ MoveEntry(1)
    \/ MoveReturn(1)

SpecMove == MoveInit /\ [][MoveNext]_vars

(***************************************************************************)
(* ForwardToFunctionStream, lines 86-92.                                   *)
(***************************************************************************)
StrAtoms == {"a", "\n"}

\* line 91: the calls of output_function made by write(string)
ForwardedSkippingEmpty(string) == IF string = <<>> THEN <<>> ELSE <<string>>

Forwarded(string) == <<string>>

\* line 92: the value write(string) returns
WriteResult(string) == Len(string)

\* write(string), lines 90-92
Write ==
    /\ Len(stream_written) < MaxWrites
    /\ \E string \in SeqsUpTo(StrAtoms, MaxStrLen) :
         /\ stream_written' = Append(stream_written, string)
         /\ stream_calls' = stream_calls \o Forwarded(string)
         /\ stream_ret' = Append(stream_ret, WriteResult(string))
    /\ UNCHANGED <<globalVars, pkgVars, moveVars, checkVars>>

\* no thread is in package()
PkgIdle ==
    /\ sys_argv = << <<"auto-py-to-exe">> >>
    /\ recursion_limit = DEFAULT_RECURSION_LIMIT
    /\ dist_dir = NoDir
    /\ output_directory = NoDir
    /\ pc = [c \in {1} |-> "idle"]
    /\ pyinstaller_command = [c \in {1} |-> <<>>]
    /\ increase_recursion_limit = [c \in {1} |-> FALSE]
    /\ fail = [c \in {1} |-> FALSE]
    /\ exc = [c \in {1} |-> ""]
    /\ returned = [c \in {1} |-> "none"]
    /\ output = [c \in {1} |-> <<>>]
    /\ seen = [c \in {1} |-> NotSeen]
    /\ overlapped = [c \in {1} |-> FALSE]
    /\ todo = [c \in {1} |-> <<>>]
    /\ moved = [c \in {1} |-> <<>>]
    /\ failing = [c \in {1} |-> ""]
    /\ src0 = [c \in {1} |-> NoDir]
    /\ dst0 = [c \in {1} |-> NoDir]

\* a stream just constructed around an output function (lines 87-88)
RelayInit == PkgIdle /\ RelayIdle /\ CheckIdle

RelayNext == Write

SpecRelay == RelayInit /\ [][RelayNext]_vars

(***************************************************************************)
(* will_packaging_overwrite_existing(file_path, one_file, output_folder),  *)
(* lines 53-64.  A name is a sequence of atoms: the letter "a", the dot,   *)
(* the path separator and "exe" (the three letters of the extension).      *)
(***************************************************************************)
PathAtoms == {"a", ".", "/"}
Paths == SeqsUpTo(PathAtoms, MaxPathLen) \ {<<>>}

\* what os.listdir(output_folder) may hold: names without a separator, other
\* than "." and "..", and the same names followed by ".exe"
PlainNames == SeqsUpTo({"a", "."}, MaxPathLen) \ {<<>>, <<".">>, <<".", ".">>}
ListedNames == PlainNames \cup { n \o <<".", "exe">> : n \in PlainNames }
\* the subsets of S of at most k elements
RECURSIVE SubsetsUpTo(_, _)
SubsetsUpTo(S, k) ==
    IF k = 0 THEN {{}}
    ELSE LET smaller == SubsetsUpTo(S, k - 1)
         IN  smaller \cup { x \cup {e} : x \in smaller, e \in S }
Folders ==
    { [exists |-> FALSE, listing |-> {}] } \cup
    { [exists |-> TRUE, listing |-> l] : l \in SubsetsUpTo(ListedNames, MaxListing) }

\* os.path.basename(p): what follows the last separator
RECURSIVE basename(_)
basename(p) ==
    IF p = <<>> THEN <<>>
    ELSE IF p[Len(p)] = "/" THEN <<>>
    ELSE Append(basename(SubSeq(p, 1, Len(p) - 1)), p[Len(p)])

\* s.split('.'): the pieces between the dots, at least one
RECURSIVE split(_)
split(s) ==
    IF s = <<>> THEN << <<>> >>
    ELSE LET rest == split(SubSeq(s, 1, Len(s) - 1))
             last == rest[Len(rest)]
         IN  IF s[Len(s)] = "."
             THEN Append(rest, <<>>)
             ELSE [rest EXCEPT ![Len(rest)] = Append(last, s[Len(s)])]

\* '.'.join(pieces)
RECURSIVE join(_)
join(pieces) ==
    IF pieces = <<>> THEN <<>>
    ELSE IF Len(pieces) = 1 THEN pieces[1]
    ELSE join(SubSeq(pieces, 1, Len(pieces) - 1)) \o <<".">> \o pieces[Len(pieces)]

\* line 57
no_extension(path) ==
    LET pieces == split(basename(path))
    IN  join(SubSeq(pieces, 1, Len(pieces) - 1))

\* lines 55-64
will_packaging_overwrite_existing(path, onefile, folder) ==
    IF ~folder.exists THEN FALSE
    ELSE IF onefile
         THEN no_extension(path) \o <<".", "exe">> \in folder.listing
         ELSE no_extension(path) \in folder.listing

CheckInit ==
    /\ PkgIdle
    /\ RelayIdle
    /\ file_path \in Paths
    /\ one_file \in BOOLEAN
    /\ output_folder \in Folders
    /\ platform \in {"win32", "linux"}
    /\ overwrite = [done |-> FALSE, value |-> FALSE]

\* the call
Check ==
    /\ ~overwrite.done
    /\ overwrite' = [done |-> TRUE,
                     value |-> will_packaging_overwrite_existing(
                                   file_path, one_file, output_folder)]
    /\ UNCHANGED <<globalVars, pkgVars, moveVars, relayVars,
                   file_path, one_file, output_folder, platform>>

CheckNext == Check

SpecCheck == CheckInit /\ [][CheckNext]_vars

(***************************************************************************)
(* The properties.                                                         *)
(***************************************************************************)
Range(q) == { q[i] : i \in DOMAIN q }

\* the limit and the argument vector a call installs for itself
OwnLimit(c) == IF increase_recursion_limit[c] THEN 5000 ELSE DEFAULT_RECURSION_LIMIT
ForcedOverrides ==
    << <<"--distpath">>, <<"W/application">>, <<"--workpath">>, <<"W/build">>,
       <<"--specpath">>, <<"W">> >>
OwnArgv(c) == ShlexSplit(pyinstaller_command[c]).tokens \o ForcedOverrides

\* the words of a command without quotes: the maximal runs of atoms other
\* than the blank, from left to right
WordStarts(s) == { i \in DOMAIN s : s[i] # " " /\ (i = 1 \/ s[i - 1] = " ") }
WordEnd(s, i) ==
    CHOOSE j \in i..Len(s) :
        /\ \A k \in i..j : s[k] # " "
        /\ j = Len(s) \/ s[j + 1] = " "
BlankSeparatedWords(s) ==
    LET starts == WordStarts(s)
        nth(k) == CHOOSE i \in starts : Cardinality({ j \in starts : j < i }) = k - 1
    IN  [k \in 1..Cardinality(starts) |-> SubSeq(s, nth(k), WordEnd(s, nth(k)))]

\* C1: in a call in which run_pyinstaller raised, __move_package is never
\* invoked, the output directory stays as it was when package() was called,
\* and the call returns False after giving the traceback of that exception
\* to the output function.
C1_ToolFailureSkipsMove ==
    \A c \in DOMAIN pc :
        exc[c] = "run_pyinstaller" =>
            /\ seen[c].called
            /\ pc[c] \in {"except", "after", "returned"}
            /\ src0[c] = NoDir /\ moved[c] = <<>>
            /\ output_directory = dst0[c]
            /\ returned[c] # "True"
            /\ pc[c] \in {"after", "returned"} =>
                   Traceback("run_pyinstaller") \in Range(output[c])
            /\ pc[c] = "returned" => returned[c] = "False"

C1_Witness ==
    \E c \in DOMAIN pc :
        /\ pc[c] = "returned"
        /\ exc[c] = "run_pyinstaller"
        /\ returned[c] = "False"
        /\ ListDir(dist_dir) # {}
        /\ ListDir(output_directory) # {}

\* C2: in a call in which run_pyinstaller returned and __move_package raised
\* (before the loop or at an entry), the exception is handled inside
\* package(): the traceback of the move is given to the output function and
\* the call returns True.
C2_MoveFailureStillTrue ==
    \A c \in DOMAIN pc :
        exc[c] = "__move_package" =>
            /\ seen[c].called
            /\ ~fail[c]
            /\ pc[c] \in {"move_except", "return", "returned"}
            /\ returned[c] # "False"
            /\ pc[c] \in {"return", "returned"} =>
                   Traceback("__move_package") \in Range(output[c])
            /\ pc[c] = "returned" => returned[c] = "True"

C2_Witness ==
    \E c \in DOMAIN pc :
        /\ pc[c] = "returned"
        /\ exc[c] = "__move_package"
        /\ failing[c] # ""
        /\ returned[c] = "True"

\* C3 as stated: whenever package() returns False, run_pyinstaller was
\* invoked in that call and raised.
C3_FalseOnlyIfToolRaised ==
    \A c \in DOMAIN pc :
        returned[c] = "False" => seen[c].called /\ exc[c] = "run_pyinstaller"

\* C3 amended: package() returns False exactly when an exception was raised
\* inside the try of lines 138-148: by shlex.split on a command with an
\* unclosed quotation (run_pyinstaller is then never invoked) or by
\* run_pyinstaller; a failure of the move never makes the result False.
C3_FalseIffTryRaised ==
    \A c \in DOMAIN pc :
        /\ returned[c] = "False" =>
              \/ /\ exc[c] = "shlex.split"
                 /\ ~ShlexSplit(pyinstaller_command[c]).ok
                 /\ ~seen[c].called
              \/ /\ exc[c] = "run_pyinstaller"
                 /\ seen[c].called
        /\ returned[c] = "True" => seen[c].called /\ exc[c] \in {"", "__move_package"}

C3_Witness ==
    \E c \in DOMAIN pc :
        /\ returned[c] = "False"
        /\ exc[c] = "shlex.split"
        /\ ~seen[c].called

\* C4: when run_pyinstaller is invoked the recursion limit is 5000 if
\* increaseRecursionLimit is set and the default otherwise, whatever the
\* limit was before the call.
C4_LimitAtInvocation ==
    \A c \in DOMAIN pc :
        seen[c].called =>
            seen[c].limit = IF increase_recursion_limit[c]
                            THEN 5000 ELSE DEFAULT_RECURSION_LIMIT

C4_Witness ==
    \E c \in DOMAIN pc :
        /\ seen[c].called
        /\ ~increase_recursion_limit[c]
        /\ seen[c].limit = DEFAULT_RECURSION_LIMIT
        /\ 5000 # DEFAULT_RECURSION_LIMIT

\* C5: the argument vector run_pyinstaller observes is the shell words of
\* the command followed by --distpath W/application --workpath W/build
\* --specpath W, so the forced overrides are its last six elements.
C5_ArgvAtInvocation ==
    \A c \in DOMAIN pc :
        seen[c].called =>
            LET words == ShlexSplit(pyinstaller_command[c])
                n == Len(seen[c].argv)
            IN  /\ words.ok
                /\ seen[c].argv = words.tokens \o ForcedOverrides
                /\ n >= 6 /\ SubSeq(seen[c].argv, n - 5, n) = ForcedOverrides
                /\ "'" \notin Range(pyinstaller_command[c]) =>
                       SubSeq(seen[c].argv, 1, n - 6) =
                           BlankSeparatedWords(pyinstaller_command[c])

C5_Witness ==
    \E c \in DOMAIN pc :
        /\ seen[c].called
        /\ Len(seen[c].argv) = 8
        /\ seen[c].argv[1] = <<"--distpath">>
        /\ seen[c].argv[2] = <<"x">>

\* C6: when __move_package returns (the destination was absent or a
\* directory, no call failed), the destination exists, holds every
\* entry the source held with the source's content, holds its other entries
\* unchanged, and the source holds none of the moved entries.
C6_MoveOverwrites ==
    \A c \in DOMAIN pc :
        (pc[c] = "return" /\ exc[c] = "") =>
            /\ output_directory.exists
            /\ \A n \in AllNames :
                 IF Exists(src0[c], n)
                 THEN /\ output_directory.entries[n] = src0[c].entries[n]
                      /\ ~Exists(dist_dir, n)
                 ELSE output_directory.entries[n] = dst0[c].entries[n]

C6_Witness ==
    \E c \in DOMAIN pc :
        /\ pc[c] = "return" /\ exc[c] = ""
        /\ \E n, m, k \in AllNames :
             /\ Exists(src0[c], n) /\ IsFile(dst0[c], n) /\ ~IsFile(src0[c], n)
             /\ Exists(src0[c], m) /\ ~Exists(dst0[c], m)
             /\ ~Exists(src0[c], k) /\ Exists(dst0[c], k)

\* the name the packaged artifact is expected under: the base name without
\* its last extension (whole when it has none), then the executable
\* extension of the platform in one-file mode
LastExtensionStripped(name) ==
    LET dots == { i \in DOMAIN name : name[i] = "." }
    IN  IF dots = {} THEN name
        ELSE SubSeq(name, 1, (CHOOSE i \in dots : \A j \in dots : j <= i) - 1)
ExecutableExtension(p) == IF p = "win32" THEN <<".", "exe">> ELSE <<>>
DerivedName(path, onefile, p) ==
    LastExtensionStripped(basename(path)) \o
        (IF onefile THEN ExecutableExtension(p) ELSE <<>>)

\* C7 as stated: the checker returns true iff the destination exists and
\* lists the derived name: the base name without its last extension (the
\* whole base name when it has none), followed by the executable extension
\* of the platform in one-file mode.
C7_CollisionIffDerivedNameListed ==
    overwrite.done =>
        overwrite.value =
            (/\ output_folder.exists
             /\ DerivedName(file_path, one_file, platform) \in output_folder.listing)

\* C8: every write(s) calls the output function once with s, in order, and
\* returns len(s).
C8_WriteForwardsOnce ==
    /\ stream_calls = stream_written
    /\ Len(stream_ret) = Len(stream_written)
    /\ \A i \in DOMAIN stream_written : stream_ret[i] = Len(stream_written[i])

C8_Witness ==
    /\ Len(stream_written) >= 3
    /\ stream_written[1] = <<>>
    /\ Len(stream_written[2]) = 2
    /\ stream_ret[2] = 2

\* C9: a call during which no other call was in flight sees its own
\* argument vector and recursion limit at the invocation of the tool.
C9_AloneSeesOwnState ==
    \A c \in DOMAIN pc :
        (seen[c].called /\ ~overlapped[c]) =>
            /\ seen[c].argv = OwnArgv(c)
            /\ seen[c].limit = OwnLimit(c)

\* C9: with two calls interleaved, the tool is invoked for one call while
\* the argument vector and the recursion limit are those of the other.
C9_Witness ==
    \E c, d \in DOMAIN pc :
        /\ c # d
        /\ seen[c].called
        /\ ShlexSplit(pyinstaller_command[d]).ok
        /\ seen[c].argv = OwnArgv(d) /\ seen[c].argv # OwnArgv(c)
        /\ seen[c].limit = OwnLimit(d) /\ seen[c].limit # OwnLimit(c)

\* C10: when __move_package raises at an entry, the entries processed before
\* are in the destination and gone from the source, the entries not reached
\* are untouched in both directories, every source entry is whole in the
\* source or in the destination, and no destination entry under another
\* name than the source's is changed.
C10_PartialFailure ==
    \A c \in DOMAIN pc :
        (pc[c] = "move_except" /\ failing[c] # "") =>
            /\ \A n \in Range(moved[c]) :
                 /\ output_directory.entries[n] = src0[c].entries[n]
                 /\ ~Exists(dist_dir, n)
            /\ \A n \in Range(todo[c]) :
                 /\ dist_dir.entries[n] = src0[c].entries[n]
                 /\ output_directory.entries[n] = dst0[c].entries[n]
            /\ \A n \in ListDir(src0[c]) :
                 \/ dist_dir.entries[n] = src0[c].entries[n]
                 \/ output_directory.entries[n] = src0[c].entries[n]
            /\ \A n \in AllNames \ {failing[c]} :
                 ~Exists(src0[c], n) => output_directory.entries[n] = dst0[c].entries[n]

C10_Witness ==
    \E c \in DOMAIN pc :
        /\ pc[c] = "move_except"
        /\ Len(moved[c]) >= 1
        /\ Len(todo[c]) >= 1
        /\ Exists(dst0[c], failing[c])
        /\ ~Exists(output_directory, failing[c])
        /\ Exists(dist_dir, failing[c])

====
